---- MODULE Spec2Model ----
\* Model of the Bolt Fleet Integration API client (src/bolt/bolt_client.py,
\* src/bolt_schemas.py): one Client object, its access token, and the
\* request / refresh / retry protocol of the four resource methods.  The remote
\* services (OIDC token endpoint, fleet API) are the environment: every reply
\* is drawn from a bounded set of responses.
EXTENDS Integers, Sequences, FiniteSets, TLC

\* ---------------------------------------------------------------- bounds

\* longest list of items a response carries
MaxLen == 2
\* most consecutive direct calls of _ensure_token that are counted
MaxEnsure == 2
\* largest advance of the clock (seconds) between the two reads of now()
MaxAdvance == 1

\* ------------------------------------------------------ program constants

\* response.status_code != 200
HTTP_OK == 200
\* response.status_code == 401
HTTP_UNAUTHORIZED == 401
\* response_data.get('code') == 503
CODE_TOKEN_INVALID == 503
\* timedelta(days=1), in seconds
DAY == 86400

\* "no timestamp": the None default of the start_ts / end_ts parameters
NoTs == -1

\* Python's None
None == "None"

\* ----------------------------------------------------- environment values

\* the statuses the fleet API answers with: 200, 401 and one other failure
Statuses == {HTTP_OK, HTTP_UNAUTHORIZED, 500}

\* the values of the JSON member "code": 503 and one other
Codes == {CODE_TOKEN_INVALID, 0}

\* the statuses the authority answers a token request with
TokenStatuses == {HTTP_OK, 500}

\* os.getenv(...) at construction
ENV_CLIENT_ID == "id"
ENV_CLIENT_SECRET == "secret"
ENV_API_URL == "https://api"

\* the token strings the authority can issue
Tokens == {"tokA", "tokB"}

Methods == {"get_fleet_orders", "get_vehicles", "get_drivers", "get_fleet_state_logs"}

\* the list field each method reads from the data object (lines 174, 248, 322, 392)
ListField(m) ==
    CASE m = "get_fleet_orders" -> "orders"
      [] m = "get_vehicles" -> "vehicles"
      [] m = "get_drivers" -> "drivers"
      [] m = "get_fleet_state_logs" -> "state_logs"

FieldNames == {ListField(m) : m \in Methods}

\* One item of a response list, reduced to one representative field that the
\* Vehicle / Driver / FleetStateLog schemas require: its value, or "absent"
\* when the item lacks it.
ItemVals == {"absent", "a"}

SeqsUpTo(S, n) == UNION {[1..k -> S] : k \in 0..n}

ItemLists == SeqsUpTo(ItemVals, MaxLen)

\* The data member of a JSON object body: absent, null, not an object, or an
\* object holding at most one list field (absent, null or a list).
NoData == [kind |-> "absent", field |-> "", lkind |-> "absent", items |-> <<>>]

DataVals ==
    {NoData}
    \cup {[kind |-> k, field |-> "", lkind |-> "absent", items |-> <<>>] :
            k \in {"null", "nonobject", "object"}}
    \cup {[kind |-> "object", field |-> f, lkind |-> "null", items |-> <<>>] :
            f \in FieldNames}
    \cup {[kind |-> "object", field |-> f, lkind |-> "list", items |-> l] :
            f \in FieldNames, l \in ItemLists}

\* A response body: not JSON, JSON that is not an object, or a JSON object
\* with an optional code and an optional data member.
NoBody == [json |-> "invalid", has_code |-> FALSE, code |-> 0, data |-> NoData]

Bodies ==
    {NoBody}
    \cup {[json |-> "nonobject", has_code |-> FALSE, code |-> 0, data |-> NoData]}
    \cup {[json |-> "object", has_code |-> FALSE, code |-> 0, data |-> d] :
            d \in DataVals}
    \cup {[json |-> "object", has_code |-> TRUE, code |-> c, data |-> d] :
            c \in Codes, d \in DataVals}

\* the replies of the fleet API to a resource POST
Responses == [status : Statuses, body : Bodies]

NoResponse == [status |-> 0, body |-> NoBody]

\* the replies of the OIDC authority to a token request: a body that is not
\* JSON, or a JSON object whose access_token is None when the member is
\* missing and "" when it is empty; a refusal may carry a token all the same
TokenResponses ==
    [status : {HTTP_OK}, json : {"invalid"}, access_token : {None}]
    \cup [status : {HTTP_OK}, json : {"object"}, access_token : {None, ""} \cup Tokens]
    \cup [status : TokenStatuses \ {HTTP_OK}, json : {"object"},
          access_token : {None, "tokA"}]

NoTokenResponse == [status |-> 0, json |-> "invalid", access_token |-> None]

\* Python truthiness of a token value: None and "" are falsy
Truthy(t) == t # None /\ t # ""

\* ----------------------------------------------------------- pure helpers

\* What a finished operation hands to its caller: kind "ok" with the records
\* it returns, or the kind of the exception it raises.  AuthError is the
\* Exception raised at lines 59 and 62, ApiError the one raised at lines 173,
\* 247, 321 and 391 (status and body of the response it reports).
NoOutcome == [kind |-> "none", status |-> 0, body |-> NoBody, result |-> <<>>,
     reply |-> NoTokenResponse]

Returned(records) == [kind |-> "ok", status |-> 0, body |-> NoBody,
     result |-> records, reply |-> NoTokenResponse]

Raised(k) == [kind |-> k, status |-> 0, body |-> NoBody, result |-> <<>>,
     reply |-> NoTokenResponse]

\* Client() returned the new client.
Constructed == [kind |-> "constructed", status |-> 0, body |-> NoBody, result |-> <<>>,
     reply |-> NoTokenResponse]

\* The Exception of line 59 reports the status and the text of the reply of
\* the authority; the one of line 62 reports neither (st = 0, no reply).
AuthError(st, tr) ==
    [kind |-> "AuthError", status |-> st, body |-> NoBody, result |-> <<>>, reply |-> tr]

\* An ApiError that reports the status and leaves the body out.
ApiError_NoBody(resp) ==
    [kind |-> "ApiError", status |-> resp.status, body |-> NoBody, result |-> <<>>,
     reply |-> NoTokenResponse]

ApiError(resp) ==
    [kind |-> "ApiError", status |-> resp.status, body |-> resp.body, result |-> <<>>,
     reply |-> NoTokenResponse]

\* A get_access_token without the "if not token" test of line 61.
get_access_token_Unchecked(tr) ==
    IF tr.status # HTTP_OK
    THEN [ok |-> FALSE, token |-> None, err |-> AuthError(tr.status, tr)]
    ELSE IF tr.json = "invalid"
    THEN [ok |-> FALSE, token |-> None, err |-> Raised("JSONDecodeError")]
    ELSE [ok |-> TRUE, token |-> tr.access_token, err |-> NoOutcome]

\* A get_access_token without the status test of line 57.
get_access_token_AnyStatus(tr) ==
    IF tr.json = "invalid"
    THEN [ok |-> FALSE, token |-> None, err |-> Raised("JSONDecodeError")]
    ELSE IF ~Truthy(tr.access_token)
    THEN [ok |-> FALSE, token |-> None, err |-> AuthError(0, NoTokenResponse)]
    ELSE [ok |-> TRUE, token |-> tr.access_token, err |-> NoOutcome]

\* get_access_token, from the reply of the authority on: the token it
\* returns, or the exception it raises.
get_access_token(tr) ==
    IF tr.status # HTTP_OK
    THEN [ok |-> FALSE, token |-> None, err |-> AuthError(tr.status, tr)]
    ELSE IF tr.json = "invalid"
    THEN [ok |-> FALSE, token |-> None, err |-> Raised("JSONDecodeError")]
    ELSE IF tr.json = "nonobject"
    THEN [ok |-> FALSE, token |-> None, err |-> Raised("AttributeError")]
    ELSE IF ~Truthy(tr.access_token)
    THEN [ok |-> FALSE, token |-> None, err |-> AuthError(0, NoTokenResponse)]
    ELSE [ok |-> TRUE, token |-> tr.access_token, err |-> NoOutcome]

\* A try block that takes every reply for a refresh signal.
TryDecision_Eager(resp) == "refresh"

\* The try block of _refresh_token_if_needed up to its decision (lines 93-95):
\* "refresh" when the condition of line 95 is true, "no" when it is false,
\* "exception" when response.json() or response_data.get raises.  The status
\* test comes first in the "or", so a 401 never evaluates .get.
TryDecision(resp) ==
    IF resp.body.json = "invalid" THEN "exception"
    ELSE IF resp.status = HTTP_UNAUTHORIZED THEN "refresh"
    ELSE IF resp.body.json = "nonobject" THEN "exception"
    ELSE IF resp.body.has_code /\ resp.body.code = CODE_TOKEN_INVALID THEN "refresh"
    ELSE "no"

\* What a reply signals about the token, in the words of the docstring of
\* _refresh_token_if_needed ("Checks for HTTP 401 status code or response code
\* 503"): "401", "503" (a JSON object whose code is 503), or "no".
Signal(resp) ==
    IF resp.status = HTTP_UNAUTHORIZED THEN "401"
    ELSE IF resp.body.json = "object" /\ resp.body.has_code
            /\ resp.body.code = CODE_TOKEN_INVALID THEN "503"
    ELSE "no"

\* The test of the except handler (line 101).
ExceptDecision(resp) == resp.status = HTTP_UNAUTHORIZED

\* Record construction, FleetOrder(**item) etc.: every field of FleetOrder is
\* optional (an absent one becomes None); Vehicle, Driver and FleetStateLog
\* require theirs.
Construct(m, item) ==
    IF item = "absent" /\ m # "get_fleet_orders"
    THEN [ok |-> FALSE, rec |-> None]
    ELSE [ok |-> TRUE, rec |-> IF item = "absent" THEN None ELSE item]

RECURSIVE BuildRecords(_, _)
BuildRecords(m, items) ==
    IF items = <<>> THEN Returned(<<>>)
    ELSE LET c == Construct(m, Head(items))
             rest == BuildRecords(m, Tail(items))
         IN IF ~c.ok THEN Raised("ValidationError")
            ELSE IF rest.kind # "ok" THEN rest
            ELSE Returned(<<c.rec>> \o rest.result)

\* A parse that indexes instead of using .get with a default:
\* response.json()["data"][<field>].
ParseRecords_Indexed(m, body) ==
    IF body.json = "invalid" THEN Raised("JSONDecodeError")
    ELSE IF body.json = "nonobject" THEN Raised("TypeError")
    ELSE IF body.data.kind = "absent" THEN Raised("KeyError")
    ELSE IF body.data.kind \in {"null", "nonobject"} THEN Raised("TypeError")
    ELSE IF body.data.field # ListField(m) THEN Raised("KeyError")
    ELSE IF body.data.lkind = "null" THEN Raised("TypeError")
    ELSE BuildRecords(m, body.data.items)

\* response.json().get("data", {}).get(<field>, []) and the list
\* comprehension over it (lines 174, 248, 322, 392).
ParseRecords(m, body) ==
    IF body.json = "invalid" THEN Raised("JSONDecodeError")
    ELSE IF body.json = "nonobject" THEN Raised("AttributeError")
    ELSE IF body.data.kind = "absent" THEN Returned(<<>>)
    ELSE IF body.data.kind \in {"null", "nonobject"} THEN Raised("AttributeError")
    ELSE IF body.data.field # ListField(m) THEN Returned(<<>>)
    ELSE IF body.data.lkind = "null" THEN Raised("TypeError")
    ELSE BuildRecords(m, body.data.items)

\* A tail that also takes code 503 in the body for a failed request.
Finish_CodeChecked(m, resp) ==
    IF resp.status # HTTP_OK
       \/ (resp.body.json = "object" /\ resp.body.has_code
              /\ resp.body.code = CODE_TOKEN_INVALID)
    THEN ApiError(resp)
    ELSE ParseRecords(m, resp.body)

\* A tail that omits the status check.
Finish_NoStatusCheck(m, resp) == ParseRecords(m, resp.body)

\* The tail of every resource method (lines 171-174): the status check and
\* the parse of the response the method ends with.
Finish(m, resp) ==
    IF resp.status # HTTP_OK THEN ApiError(resp) ELSE ParseRecords(m, resp.body)

\* A default start that is the current time itself.
DefaultStart_Now(s, t1) == IF s = NoTs THEN t1 ELSE s

\* A default end that lags one second behind the clock.
DefaultEnd_Lagging(e, t2) == IF e = NoTs THEN t2 - 1 ELSE e

\* The timestamp defaults (lines 136-139): t1 and t2 are the two reads of now().
DefaultStart(s, t1) == IF s = NoTs THEN t1 - DAY ELSE s

DefaultEnd(e, t2) == IF e = NoTs THEN t2 ELSE e

\* ------------------------------------------------------------------ state

VARIABLES
    pc,             \* where the program is: "new" (no client), "idle", or inside an operation
    op,             \* the operation running, or the last one that ran
    client_id,      \* Client.client_id
    client_secret,  \* Client.client_secret
    base_url,       \* Client.base_url
    access_token,   \* Client.access_token
    start_ts,       \* the local start_ts of the resource method running
    end_ts,         \* the local end_ts of the resource method running
    args,           \* the start_ts and end_ts the caller passed to the method running
    response,       \* the local response of the resource method: the latest reply
    firstSignal,    \* what the first reply of this call signalled ("none" before it)
    tokResp,        \* the latest reply of the authority to a token request
    posts,          \* the bearer tokens of the resource POSTs sent by this call, in order
    tokLog,         \* each token request of this operation: "ok" or the error raised
    refreshRet,     \* what _refresh_token_if_needed returned in this call
    outcome,        \* what the operation handed to its caller
    ensures,        \* direct calls of _ensure_token since the last other operation
    schema,         \* the record class a list of payload items is built with
    payload,        \* the payload items handed to the record class, in order
    records         \* the records built from the payload, or the error of building them

vars == <<pc, op, client_id, client_secret, base_url, access_token, start_ts, end_ts,
          args, response, firstSignal, tokResp, posts, tokLog, refreshRet, outcome,
          ensures, schema, payload, records>>

\* the state of the client and of the operation running on it
clientVars == <<pc, op, client_id, client_secret, base_url, access_token, start_ts,
                end_ts, args, response, firstSignal, tokResp, posts, tokLog,
                refreshRet, outcome, ensures>>

\* the state of the records built from payload items
recordVars == <<schema, payload, records>>

\* no resource method has taken its arguments
NoArgs == [given |-> FALSE, s |-> NoTs, e |-> NoTs]

\* no list of records has been built
NoRecords == [kind |-> "none", recs |-> <<>>]

creds == <<client_id, client_secret, base_url>>

\* the places where a token request is in flight
FetchStates == {"ctor_fetch", "call_fetch", "ensure_fetch", "try_fetch", "except_fetch"}

Init ==
    /\ pc = "new"
    /\ op = "none"
    /\ client_id = None
    /\ client_secret = None
    /\ base_url = None
    /\ access_token = None
    /\ start_ts = NoTs
    /\ end_ts = NoTs
    /\ args = NoArgs
    /\ response = NoResponse
    /\ firstSignal = "none"
    /\ tokResp = NoTokenResponse
    /\ posts = <<>>
    /\ tokLog = <<>>
    /\ refreshRet = "none"
    /\ outcome = NoOutcome
    /\ ensures = 0
    /\ schema = "none"
    /\ payload = <<>>
    /\ records = NoRecords

\* ------------------------------------------------------- steps of the code

\* An _ensure_token that fetches a token whether or not one is held.
EnsureNeedsFetch_Always(tok) == TRUE

\* _ensure_token line 73: whether a token has to be fetched.
EnsureNeedsFetch(tok) == ~Truthy(tok)

\* An Authorization header that carries no token.
Bearer_None(tok) == None

\* The Authorization header of a resource POST (lines 144 and 160): the token
\* stored in the client when the request is built.
Bearer(tok) == tok

\* A method that never re-issues its request.
RetryWanted_Never(ret) == FALSE

\* Line 156: the retry is made when _refresh_token_if_needed returned True.
RetryWanted(ret) == ret = "True"

\* A refresh that clears the stored token.
RefreshedToken_Cleared(old, new) == None

\* A refresh that fetches a token and does not store it.
RefreshedToken_NotStored(old, new) == old

\* Lines 97 and 103: the token a successful fetch leaves in the client.
RefreshedToken(old, new) == new

\* A handler that asks for a token again whatever the status of the reply.
AfterTryFailure_AlwaysAgain(resp) == "fetch_again"

\* The value get_access_token's failure in the try block leads to (lines
\* 99-105): the handler asks for a token again on a 401, and otherwise falls
\* through to "return False".
AfterTryFailure(resp) == IF ExceptDecision(resp) THEN "fetch_again" ELSE "return_false"

\* The locals and the history of a fresh operation.
StartOperation(name) ==
    /\ op' = name
    /\ start_ts' = NoTs
    /\ end_ts' = NoTs
    /\ args' = NoArgs
    /\ response' = NoResponse
    /\ firstSignal' = "none"
    /\ tokResp' = NoTokenResponse
    /\ posts' = <<>>
    /\ tokLog' = <<>>
    /\ refreshRet' = "none"
    /\ outcome' = NoOutcome

\* The resource method ends: lines 171-174 on the response it holds.
Complete(resp) ==
    /\ outcome' = Finish(op, resp)
    /\ pc' = "idle"
    /\ start_ts' = NoTs
    /\ end_ts' = NoTs
    /\ args' = NoArgs

\* Client() : __init__ (lines 28-33) up to the token request of _ensure_token.
NewClient ==
    /\ pc = "new"
    /\ client_id' = ENV_CLIENT_ID
    /\ client_secret' = ENV_CLIENT_SECRET
    /\ base_url' = ENV_API_URL
    /\ access_token' = None
    /\ ensures' = 0
    /\ StartOperation("__init__")
    /\ pc' = IF EnsureNeedsFetch(None) THEN "ctor_fetch" ELSE "idle"
    /\ UNCHANGED recordVars

\* A resource method is entered (lines 133, 204, 278, 353): _ensure_token.
Call(m) ==
    /\ pc = "idle"
    /\ StartOperation(m)
    /\ ensures' = 0
    /\ pc' = IF EnsureNeedsFetch(access_token) THEN "call_fetch" ELSE "ensured"
    /\ UNCHANGED <<creds, access_token, recordVars>>

\* The timestamp defaults and the first POST (lines 135-153): s and e are the
\* caller's start_ts and end_ts, t1 and t2 the two reads of the clock.
SendFirst(s, e, t1, t2) ==
    /\ pc = "ensured"
    /\ t1 <= t2
    /\ start_ts' = DefaultStart(s, t1)
    /\ end_ts' = DefaultEnd(e, t2)
    /\ args' = [given |-> TRUE, s |-> s, e |-> e]
    /\ posts' = <<Bearer(access_token)>>
    /\ pc' = "sent1"
    /\ UNCHANGED <<op, creds, access_token, response, firstSignal, tokResp, tokLog,
                   refreshRet, outcome, ensures, recordVars>>

\* The first reply arrives: _refresh_token_if_needed (lines 92-105) up to its
\* token request, or, when it returns False, the rest of the method.
FirstReply(resp) ==
    /\ pc = "sent1"
    /\ response' = resp
    /\ firstSignal' = Signal(resp)
    /\ IF TryDecision(resp) = "refresh"
       THEN /\ pc' = "try_fetch"
            /\ UNCHANGED <<start_ts, end_ts, args, refreshRet, outcome>>
       ELSE IF TryDecision(resp) = "exception" /\ ExceptDecision(resp)
       THEN /\ pc' = "except_fetch"
            /\ UNCHANGED <<start_ts, end_ts, args, refreshRet, outcome>>
       ELSE /\ refreshRet' = "False"
            /\ Complete(resp)
    /\ UNCHANGED <<op, creds, access_token, tokResp, posts, tokLog, ensures, recordVars>>

\* _refresh_token_if_needed stored tok and returned True: the retry POST
\* (lines 156-169 etc.).  The first reply is never read again once the retry
\* is sent (its reply overwrites the local), so the model drops it here.
SendRetry(tok) ==
    /\ access_token' = tok
    /\ refreshRet' = "True"
    /\ IF RetryWanted("True")
       THEN /\ posts' = Append(posts, Bearer(tok))
            /\ pc' = "sent2"
            /\ response' = NoResponse
            /\ UNCHANGED <<start_ts, end_ts, args, outcome>>
       ELSE /\ posts' = posts
            /\ response' = response
            /\ Complete(response)

\* An exception leaves the operation.
Propagate(err) ==
    /\ outcome' = err
    /\ start_ts' = NoTs
    /\ end_ts' = NoTs
    /\ args' = NoArgs

\* The authority answers a token request: get_access_token (lines 57-64)
\* returns or raises into the code that called it.
TokenReply(tr) ==
    LET r == get_access_token(tr)
    IN /\ pc \in FetchStates
       /\ tokResp' = tr
       /\ tokLog' = Append(tokLog, IF r.ok THEN "ok" ELSE r.err.kind)
       /\ UNCHANGED <<op, firstSignal, ensures, recordVars>>
       /\ CASE pc = "ctor_fetch" ->
                 \* __init__: line 74 stores the token, or the exception leaves
                 \* the constructor and no client exists
                 IF r.ok
                 THEN /\ access_token' = r.token
                      /\ pc' = "idle"
                      /\ outcome' = Constructed
                      /\ UNCHANGED <<creds, start_ts, end_ts, args, response, posts, refreshRet>>
                 ELSE /\ access_token' = None
                      /\ client_id' = None
                      /\ client_secret' = None
                      /\ base_url' = None
                      /\ pc' = "new"
                      /\ Propagate(r.err)
                      /\ UNCHANGED <<response, posts, refreshRet>>
            [] pc = "call_fetch" ->
                 \* _ensure_token at the head of a resource method
                 IF r.ok
                 THEN /\ access_token' = r.token
                      /\ pc' = "ensured"
                      /\ UNCHANGED <<creds, start_ts, end_ts, args, response, posts, refreshRet, outcome>>
                 ELSE /\ pc' = "idle"
                      /\ Propagate(r.err)
                      /\ UNCHANGED <<creds, access_token, response, posts, refreshRet>>
            [] pc = "ensure_fetch" ->
                 \* _ensure_token called on its own
                 IF r.ok
                 THEN /\ access_token' = r.token
                      /\ pc' = "idle"
                      /\ UNCHANGED <<creds, start_ts, end_ts, args, response, posts, refreshRet, outcome>>
                 ELSE /\ pc' = "idle"
                      /\ Propagate(r.err)
                      /\ UNCHANGED <<creds, access_token, response, posts, refreshRet>>
            [] pc = "try_fetch" ->
                 \* line 97, inside the try block: a failure is caught by
                 \* "except Exception" (line 99)
                 IF r.ok
                 THEN /\ SendRetry(RefreshedToken(access_token, r.token))
                      /\ UNCHANGED creds
                 ELSE IF AfterTryFailure(response) = "fetch_again"
                 THEN /\ pc' = "except_fetch"
                      /\ UNCHANGED <<creds, access_token, start_ts, end_ts, args, response,
                                     posts, refreshRet, outcome>>
                 ELSE /\ refreshRet' = "False"
                      /\ Complete(response)
                      /\ UNCHANGED <<creds, access_token, response, posts>>
            [] pc = "except_fetch" ->
                 \* line 103, inside the handler: a failure leaves the method
                 IF r.ok
                 THEN /\ SendRetry(RefreshedToken(access_token, r.token))
                      /\ UNCHANGED creds
                 ELSE /\ pc' = "idle"
                      /\ refreshRet' = "raised"
                      /\ Propagate(r.err)
                      /\ UNCHANGED <<creds, access_token, response, posts>>

\* The reply to the retry arrives: lines 171-174 on it.
RetryReply(resp) ==
    /\ pc = "sent2"
    /\ response' = resp
    /\ Complete(resp)
    /\ UNCHANGED <<op, creds, access_token, firstSignal, tokResp, posts, tokLog,
                   refreshRet, ensures, recordVars>>

\* client._ensure_token() called on its own (lines 66-74).
EnsureToken ==
    /\ pc = "idle"
    /\ ensures < MaxEnsure
    /\ ensures' = ensures + 1
    /\ StartOperation("_ensure_token")
    /\ pc' = IF EnsureNeedsFetch(access_token) THEN "ensure_fetch" ELSE "idle"
    /\ UNCHANGED <<creds, access_token, recordVars>>

\* the caller's start_ts and end_ts: omitted, or an explicit timestamp
StartArgs == {NoTs, 950000}

EndArgs == {NoTs, 900000}

\* the readings of the clock, in seconds since the epoch
ClockReads == 1000000 .. (1000000 + MaxAdvance)

Next ==
    \/ NewClient
    \/ \E m \in Methods : Call(m)
    \/ \E s \in StartArgs, e \in EndArgs, t1 \in ClockReads, t2 \in ClockReads :
          SendFirst(s, e, t1, t2)
    \/ \E resp \in Responses : FirstReply(resp)
    \/ \E tr \in TokenResponses : TokenReply(tr)
    \/ \E resp \in Responses : RetryReply(resp)
    \/ EnsureToken

Spec == Init /\ [][Next]_vars

\* ---------------------------------------------------------------- records

\* The record classes of bolt_schemas.py that have required fields, as the
\* resource methods build them from payload items (lines 248 and 322 of
\* bolt_client.py).  A value is a type tag and a text: a JSON value of the
\* payload (str, int, bool), or the Python object a field holds (UUID,
\* PortalStatus).
Schemas == {"Vehicle", "Driver"}

JStr(s) == [t |-> "str", v |-> s]

JInt(s) == [t |-> "int", v |-> s]

JBool(s) == [t |-> "bool", v |-> s]

PyUUID(s) == [t |-> "UUID", v |-> s]

PyPortalStatus(s) == [t |-> "PortalStatus", v |-> s]

\* the key is missing from the payload item
Absent == [t |-> "absent", v |-> ""]

\* the declared type of each field (lines 60-66 and 72-80)
Fields(sch) ==
    IF sch = "Vehicle"
    THEN [id |-> "int", model |-> "str", year |-> "int", reg_number |-> "str",
          uuid |-> "UUID", state |-> "PortalStatus"]
    ELSE [driver_uuid |-> "UUID", partner_uuid |-> "UUID", first_name |-> "str",
          last_name |-> "str", email |-> "str", phone |-> "str",
          state |-> "PortalStatus", has_cash_payment |-> "bool"]

\* the values of PortalStatus (lines 10-12)
PortalStatus == {"active", "inactive"}

\* texts that uuid.UUID parses, and the canonical form str() gives back:
\* hexadecimal digits are read in either case and written in lower case
HexTexts == {"ab12", "AB12"}

Canonical(s) == IF s = "AB12" THEN "ab12" ELSE s

\* texts that int() parses
DigitTexts == {"7", "2020"}

\* A validation that stores every value as it was supplied.
Coerce_Identity(type, raw) == [ok |-> raw # Absent, val |-> raw]

\* pydantic's validation of one field: the value the record holds for a raw
\* value of the payload, or a failure.  Every field of Vehicle and Driver is
\* required, so a missing key fails; a string is parsed into the int, UUID or
\* PortalStatus the field declares.
Coerce(type, raw) ==
    CASE raw = Absent -> [ok |-> FALSE, val |-> Absent]
      [] raw # Absent /\ type = "int" ->
            IF raw.t = "int" \/ (raw.t = "str" /\ raw.v \in DigitTexts)
            THEN [ok |-> TRUE, val |-> JInt(raw.v)]
            ELSE [ok |-> FALSE, val |-> Absent]
      [] raw # Absent /\ type = "UUID" ->
            IF raw.t = "str" /\ raw.v \in HexTexts
            THEN [ok |-> TRUE, val |-> PyUUID(Canonical(raw.v))]
            ELSE [ok |-> FALSE, val |-> Absent]
      [] raw # Absent /\ type = "PortalStatus" ->
            IF raw.t = "str" /\ raw.v \in PortalStatus
            THEN [ok |-> TRUE, val |-> PyPortalStatus(raw.v)]
            ELSE [ok |-> FALSE, val |-> Absent]
      [] OTHER ->
            IF raw.t = type
            THEN [ok |-> TRUE, val |-> raw]
            ELSE [ok |-> FALSE, val |-> Absent]

\* Vehicle(**item) and Driver(**item): the record, or ValidationError
ValidateItem(sch, item) ==
    LET types == Fields(sch)
    IN IF \A f \in DOMAIN types : Coerce(types[f], item[f]).ok
       THEN [ok |-> TRUE, rec |-> [f \in DOMAIN types |-> Coerce(types[f], item[f]).val]]
       ELSE [ok |-> FALSE, rec |-> <<>>]

\* the list comprehension of lines 248 and 322: the first item that fails
\* validation fails the whole list
RECURSIVE BuildList(_, _)
BuildList(sch, items) ==
    IF items = <<>> THEN [kind |-> "ok", recs |-> <<>>]
    ELSE LET c == ValidateItem(sch, Head(items))
             rest == BuildList(sch, Tail(items))
         IN IF ~c.ok \/ rest.kind # "ok"
            THEN [kind |-> "ValidationError", recs |-> <<>>]
            ELSE [kind |-> "ok", recs |-> <<c.rec>> \o rest.recs]

\* the payload items the API may send for each class
Items(sch) ==
    IF sch = "Vehicle"
    THEN [id : {JInt("7"), JStr("7")}, model : {Absent, JStr("Prius")},
          year : {JInt("2020")}, reg_number : {JStr("AB-1")},
          uuid : {JStr("ab12"), JStr("AB12")}, state : {JStr("active")}]
    ELSE [driver_uuid : {JStr("ab12"), JStr("AB12")}, partner_uuid : {JStr("ab12")},
          first_name : {JStr("Ann")}, last_name : {JStr("Lee")},
          email : {JStr("a@b.c")}, phone : {JStr("555")},
          state : {JStr("inactive"), JStr("gone")},
          has_cash_payment : {Absent, JBool("true")}]

\* the assignments a holder of a record may make: a field and its new value
Assignments(sch) ==
    IF sch = "Vehicle"
    THEN {<<"model", JStr("Yaris")>>, <<"year", JInt("2021")>>}
    ELSE {<<"first_name", JStr("Bea")>>}

\* BaseModel.__setattr__ of a class with no frozen configuration (the
\* classes of bolt_schemas.py declare none): the field takes the value.
SetAttr(rec, f, v) == [rec EXCEPT ![f] = v]

\* A method builds its records from the items of a payload.
BuildRecordList(sch, items) ==
    /\ records.kind = "none"
    /\ schema' = sch
    /\ payload' = items
    /\ records' = BuildList(sch, items)
    /\ UNCHANGED clientVars

\* The holder of the list assigns to a field of its i-th record: a is the
\* field and the value.
AssignField(i, a) ==
    /\ records.kind = "ok"
    /\ i \in 1 .. Len(records.recs)
    /\ a \in Assignments(schema)
    /\ records' = [records EXCEPT !.recs[i] = SetAttr(@, a[1], a[2])]
    /\ UNCHANGED <<clientVars, schema, payload>>

\* The list, or the error, is dropped.
DropRecords ==
    /\ records.kind # "none"
    /\ schema' = "none"
    /\ payload' = <<>>
    /\ records' = NoRecords
    /\ UNCHANGED clientVars

NextRecords ==
    \/ \E sch \in Schemas : \E items \in SeqsUpTo(Items(sch), MaxLen) :
          BuildRecordList(sch, items)
    \/ \E i \in 1 .. MaxLen, a \in UNION {Assignments(sch) : sch \in Schemas} :
          AssignField(i, a)
    \/ DropRecords

SpecRecords == Init /\ [][NextRecords]_vars

\* ----------------------------------------------------------------- claims

Range(f) == {f[i] : i \in DOMAIN f}

\* a resource method has run to its end
CallDone == pc = "idle" /\ op \in Methods

\* the response carries well-formed data for the method running: a list under
\* the method's field whose items all construct
ValidData(m, body) ==
    /\ body.json = "object"
    /\ body.data.kind = "object"
    /\ body.data.field = ListField(m)
    /\ body.data.lkind = "list"
    /\ m = "get_fleet_orders" \/ "absent" \notin Range(body.data.items)

\* C1 as stated: whenever the first reply signals a refresh (status 401, or
\* a JSON code of 503) the finished call has sent exactly two resource POSTs,
\* and no call sends more than two.
C1_Original ==
    /\ Len(posts) <= 2
    /\ CallDone /\ firstSignal \in {"401", "503"} => Len(posts) = 2

\* C1 amended: a call sends at most two resource POSTs; it sends the second
\* one exactly when _refresh_token_if_needed returned True, which happens only
\* after a refresh signal and a token request that succeeded; when the refresh
\* obtains no token the request is not re-issued.
C1_RetryExactlyOnce ==
    /\ Len(posts) <= 2
    /\ CallDone => (Len(posts) = 2 <=> refreshRet = "True")
    /\ CallDone /\ firstSignal \in {"401", "503"} /\ "ok" \in Range(tokLog)
          => Len(posts) = 2
    /\ CallDone /\ (firstSignal = "no" \/ "ok" \notin Range(tokLog))
          => Len(posts) = 1

\* a call whose retry was answered by a second refresh signal
C1_Witness ==
    /\ CallDone
    /\ firstSignal = "503"
    /\ Len(posts) = 2
    /\ Signal(response) # "no"

\* C2: first reply 401, retry reply 200 with valid data: the call returns one
\* record per item of the retry reply, in order, and the stored token is the
\* one the authority's reply to the refresh carried.
C2_RefreshThenSuccess ==
    CallDone /\ firstSignal = "401" /\ Len(posts) = 2
        /\ response.status = HTTP_OK /\ ValidData(op, response.body)
    => /\ outcome.kind = "ok"
       /\ Len(outcome.result) = Len(response.body.data.items)
       /\ \A i \in DOMAIN outcome.result :
             outcome.result[i] = Construct(op, response.body.data.items[i]).rec
       /\ tokLog[Len(tokLog)] = "ok"
       /\ access_token = tokResp.access_token
       /\ posts[2] = access_token

\* such a call, with records returned and a token that differs from the one
\* the call started with
C2_Witness ==
    /\ CallDone /\ firstSignal = "401" /\ Len(posts) = 2
    /\ response.status = HTTP_OK /\ ValidData(op, response.body)
    /\ Len(outcome.result) = 2
    /\ access_token # posts[1]

\* C3: 401 on the first attempt and on the retry: the call raises an ApiError
\* with the status and body of the second reply; the stored token is the one
\* the refresh fetched, and the successful fetch that preceded the retry is the
\* last token request of the call.
C3_UnauthorizedTwice ==
    CallDone /\ firstSignal = "401" /\ Len(posts) = 2
        /\ response.status = HTTP_UNAUTHORIZED
    => /\ outcome.kind = "ApiError"
       /\ outcome.status = HTTP_UNAUTHORIZED
       /\ outcome.body = response.body
       /\ tokLog[Len(tokLog)] = "ok"
       /\ Cardinality({i \in DOMAIN tokLog : tokLog[i] = "ok"}) = 1
       /\ access_token = tokResp.access_token
       /\ posts[2] = access_token

\* 401 twice, the second reply with a body of its own, the token replaced
C3_Witness ==
    /\ CallDone /\ firstSignal = "401" /\ Len(posts) = 2
    /\ response.status = HTTP_UNAUTHORIZED
    /\ response.body.json = "object"
    /\ access_token # posts[1]

\* C4 as stated: a failed token request is never followed by another token
\* request in the same operation, and the operation then ends with the error of
\* that request.
C4_TokenRequestNotRetried ==
    /\ \A i \in DOMAIN tokLog :
          tokLog[i] = "AuthError" => i = Len(tokLog) /\ pc \notin FetchStates
    /\ "AuthError" \in Range(tokLog) /\ pc \in {"idle", "new"}
          => outcome.kind = "AuthError"

\* C5 as stated: a resource method in which a token request failed never
\* returns a normal result.
C5_NoErrorSwallowed ==
    CallDone /\ "AuthError" \in Range(tokLog) => outcome.kind # "ok"

\* C6 as stated: whenever _refresh_token_if_needed returns, it returns True
\* exactly when the reply has status 401 or is a JSON object with code 503.
C6_NeedsRefreshExact ==
    op \in Methods /\ refreshRet \in {"True", "False"}
        => (refreshRet = "True" <=> firstSignal \in {"401", "503"})

\* the response the finished call ended with was a non-success one
FailedFinal == CallDone /\ response.status # HTTP_OK

\* C7 as stated: a call whose final response (the retry's reply when a retry
\* was made, the first reply otherwise) is a non-success one raises an ApiError
\* with that response's status and body; a non-success first reply that signals
\* no refresh is not retried.
C7_Original ==
    /\ FailedFinal
          => /\ outcome.kind = "ApiError"
             /\ outcome.status = response.status
             /\ outcome.body = response.body
    /\ FailedFinal /\ firstSignal = "no" => Len(posts) = 1

\* C7 amended: such a call fails; it raises an ApiError with the status and
\* body of its final response unless the refresh's own token request raised out
\* of _refresh_token_if_needed (first reply 401, no retry made), and then it
\* raises the error of that token request.
C7_FailedFinalResponse ==
    /\ FailedFinal /\ refreshRet # "raised"
          => /\ outcome.kind = "ApiError"
             /\ outcome.status = response.status
             /\ outcome.body = response.body
    /\ FailedFinal /\ refreshRet = "raised"
          => /\ outcome.kind \in {"AuthError", "JSONDecodeError"}
             /\ firstSignal = "401"
             /\ Len(posts) = 1
             /\ tokLog[Len(tokLog)] # "ok"
    /\ FailedFinal /\ firstSignal = "no" => Len(posts) = 1

\* a retried call whose second reply is a failure other than 401, with a body
C7_Witness ==
    /\ FailedFinal
    /\ Len(posts) = 2
    /\ response.status \notin {HTTP_OK, HTTP_UNAUTHORIZED}
    /\ response.body.json = "object"
    /\ outcome.kind = "ApiError"

\* a step that runs _ensure_token: the constructor's, a resource method's, or
\* a direct call
EnsureStep ==
    \/ pc = "new" /\ pc' # "new"
    \/ pc = "idle" /\ pc' \in {"ensured", "call_fetch"}
    \/ ensures' = ensures + 1

\* C8: with a token held, _ensure_token sends no token request and leaves the
\* token and the credentials as they are; a second direct call in a row leaves
\* every variable but the call counter as the first left it; with no token held
\* it sends a token request, and the token of the reply is the one stored.
C8_EnsureTokenIdempotent ==
    [][ /\ EnsureStep /\ Truthy(access_token)
           => /\ access_token' = access_token
              /\ creds' = creds
              /\ pc' \notin FetchStates
              /\ tokLog' = <<>>
        /\ ensures' = ensures + 1 /\ ensures >= 1
           => UNCHANGED <<pc, op, creds, access_token, start_ts, end_ts, args, response,
                          firstSignal, tokResp, posts, tokLog, refreshRet, outcome>>
        /\ EnsureStep /\ ~Truthy(access_token) => pc' \in FetchStates
        /\ pc = "ctor_fetch" /\ pc' = "idle"
           => access_token' = tokResp'.access_token /\ Truthy(access_token')
      ]_vars

\* _ensure_token was called directly twice in a row on a client holding a token
C8_Witness == pc = "idle" /\ ensures = 2 /\ Truthy(access_token)

\* the reply to the constructor's token request is one of the two failures
\* get_access_token tests for
CtorTokenRefused ==
    /\ op = "__init__"
    /\ Len(tokLog) = 1
    /\ \/ tokResp.status # HTTP_OK
       \/ tokResp.json = "object" /\ ~Truthy(tokResp.access_token)

\* C9: a client exists only with a token (the constructor has fetched it before
\* any resource method can be called), and a constructor whose token request is
\* refused raises an AuthError and leaves no client.
C9_EagerTokenFetch ==
    /\ pc \notin {"new", "ctor_fetch"} => Truthy(access_token)
    /\ pc = "idle" /\ op = "__init__"
          => tokLog = <<"ok">> /\ access_token = tokResp.access_token
    /\ CtorTokenRefused
          => /\ pc = "new"
             /\ outcome.kind = "AuthError"
             /\ access_token = None
    /\ pc = "new" => posts = <<>> /\ ~Truthy(access_token)

\* a constructor that failed because the reply had status 200 and no token
C9_Witness ==
    /\ CtorTokenRefused
    /\ tokResp.status = HTTP_OK
    /\ pc = "new"
    /\ outcome.kind = "AuthError"

\* the final response is a success whose JSON object has no data member, or a
\* data object without the list field of the method
MissingData ==
    /\ CallDone
    /\ response.status = HTTP_OK
    /\ response.body.json = "object"
    /\ \/ response.body.data.kind = "absent"
       \/ /\ response.body.data.kind = "object"
          /\ response.body.data.field # ListField(op)

\* C10: on such a response every resource method returns the empty sequence.
C10_MissingDataIsEmpty ==
    MissingData => outcome.kind = "ok" /\ outcome.result = <<>>

\* a retried call whose final reply has a data object holding another
\* method's list
C10_Witness ==
    /\ MissingData
    /\ Len(posts) = 2
    /\ response.body.data.kind = "object"
    /\ response.body.data.field \in FieldNames
    /\ response.body.data.items # <<>>

\* the final response is a success with a malformed data wrapper: a body
\* that is JSON but no object, a data member that is null or no object, or a
\* null under the method's list field
MalformedData ==
    /\ CallDone
    /\ response.status = HTTP_OK
    /\ \/ response.body.json = "nonobject"
       \/ /\ response.body.json = "object"
          /\ response.body.data.kind \in {"null", "nonobject"}
       \/ /\ response.body.json = "object"
          /\ response.body.data.kind = "object"
          /\ response.body.data.field = ListField(op)
          /\ response.body.data.lkind = "null"

\* C11 as stated: on such a response the resource method returns the empty
\* sequence and raises nothing.
C11_MalformedDataIsEmpty ==
    MalformedData => outcome.kind = "ok" /\ outcome.result = <<>>

\* the network round trips of the resource method running: the resource POSTs
\* sent, the token requests answered, and the token request in flight
RoundTrips == Len(posts) + Len(tokLog) + (IF pc \in FetchStates THEN 1 ELSE 0)

\* the token requests among them
TokenRoundTrips == Len(tokLog) + (IF pc \in FetchStates THEN 1 ELSE 0)

\* C13 as stated: a resource method entered with a token held (every call on
\* a constructed client) makes at most two round trips, token requests
\* included; one entered without a token (pc = "call_fetch") at most three.
C13_Original ==
    op \in Methods =>
        RoundTrips <= (IF pc = "call_fetch" THEN 3 ELSE 2)

\* C13 amended: a resource method on a constructed client makes at most four
\* round trips: at most two resource POSTs and at most two token requests of
\* the refresh, the second token request only after the first one failed on a
\* 401 first reply.
C13_RoundTrips ==
    op \in Methods =>
        /\ RoundTrips <= 4
        /\ Len(posts) <= 2
        /\ TokenRoundTrips <= 2
        /\ TokenRoundTrips >= 1 => Len(posts) >= 1 /\ firstSignal \in {"401", "503"}
        /\ TokenRoundTrips = 2 => firstSignal = "401" /\ tokLog[1] # "ok"

\* a call of four round trips: POST, failed token request, token request, POST
C13_Witness ==
    /\ CallDone
    /\ RoundTrips = 4
    /\ tokLog = <<"AuthError", "ok">>

\* both timestamps were omitted by the caller of the method running
BothDefaulted == args.given /\ args.s = NoTs /\ args.e = NoTs

\* C12 as stated: with both timestamps omitted the start_ts of the request is
\* end_ts - 86400 exactly, whatever the clock did between its two reads.
C12_Original ==
    BothDefaulted => start_ts = end_ts - DAY

\* C12 amended: with both timestamps omitted, end_ts is the second read of the
\* clock and start_ts the first read minus 86400, so start_ts is
\* end_ts - 86400 - d, where d >= 0 is the number of seconds the clock
\* advanced between the two reads.
C12_DefaultWindow ==
    BothDefaulted =>
        /\ end_ts \in ClockReads
        /\ start_ts + DAY \in ClockReads
        /\ end_ts - DAY - start_ts \in 0 .. MaxAdvance

\* a request whose defaults straddle a tick of the clock
C12_Witness ==
    /\ pc = "sent1"
    /\ BothDefaulted
    /\ start_ts = end_ts - DAY - 1

\* a step in which a token request was answered: get_access_token ran on the
\* reply tokResp' and its outcome is the last entry of tokLog'
TokenStep == Len(tokLog') = Len(tokLog) + 1

C17_BearerIsStoredToken ==
    op \in Methods /\ posts # <<>> =>
        /\ posts[Len(posts)] = access_token
        /\ Truthy(posts[1])
        /\ Len(posts) = 2 =>
              /\ refreshRet = "True"
              /\ tokLog[Len(tokLog)] = "ok"
              /\ posts[2] = tokResp.access_token
              /\ posts[2] = posts[1] => tokResp.access_token = posts[1]

\* a retry sent with another token than the first request
C17_Witness ==
    /\ pc = "sent2"
    /\ Len(posts) = 2
    /\ posts[2] # posts[1]
    /\ posts[2] = access_token

\* C18: the two defaults are computed each on its own against the clock: a
\* missing start_ts is a read of the clock minus 86400 even when end_ts was
\* supplied, a missing end_ts is a read of the clock, and a supplied value is
\* sent as it is, so start_ts may exceed end_ts.
C18_IndependentDefaults ==
    args.given =>
        /\ args.s # NoTs => start_ts = args.s
        /\ args.e # NoTs => end_ts = args.e
        /\ args.s = NoTs => start_ts + DAY \in ClockReads
        /\ args.e = NoTs => end_ts \in ClockReads
        /\ args.s = NoTs /\ args.e # NoTs => start_ts # end_ts - DAY

\* only end_ts supplied, a day and more in the past: the request goes out
\* with start_ts after end_ts
C18_Witness ==
    /\ pc = "sent1"
    /\ args.given
    /\ args.s = NoTs
    /\ args.e # NoTs
    /\ start_ts > end_ts

\* C19: a resource call whose first reply signals no refresh sends one POST
\* and no token request and leaves token, credentials and base URL as they
\* were, whatever the call then returns or raises.
C19_NoSignalNoRefresh ==
    CallDone /\ firstSignal = "no" =>
        /\ Len(posts) = 1
        /\ tokLog = <<>>
        /\ tokResp = NoTokenResponse
        /\ refreshRet = "False"
        /\ access_token = posts[1]
        /\ creds = <<ENV_CLIENT_ID, ENV_CLIENT_SECRET, ENV_API_URL>>
        /\ outcome = Finish(op, response)

\* such a call that failed while building its records
C19_Witness ==
    /\ CallDone
    /\ firstSignal = "no"
    /\ outcome.kind = "ValidationError"
    /\ Len(posts) = 1

\* a client exists: the constructor has returned it
ClientBuilt == pc \notin {"new", "ctor_fetch"}

\* C20: a constructed client always holds a non-empty token; the token
\* changes only to the token a token request has just returned; so the
\* _ensure_token that opens a resource method never asks for one.
C20_TokenAlwaysHeld ==
    /\ [](ClientBuilt => Truthy(access_token) /\ pc # "call_fetch")
    /\ [][access_token' # access_token =>
             /\ TokenStep
             /\ tokLog'[Len(tokLog')] = "ok"
             /\ tokResp'.status = HTTP_OK
             /\ access_token' = tokResp'.access_token
             /\ Truthy(access_token')]_vars

\* a call that ended with another token in the client than it began with
C20_Witness ==
    /\ CallDone
    /\ tokLog # <<>>
    /\ Truthy(access_token)
    /\ access_token # posts[1]

\* a step that builds the records of a payload
BuildStep == records.kind = "none" /\ records'.kind # "none"

\* the item has no value for one of the required fields
LacksField(sch, item) == \E f \in DOMAIN Fields(sch) : item[f] = Absent

\* a value the declared type of a field can be made from
Accepts(type, raw) ==
    /\ raw # Absent
    /\ type \in {"str", "bool"} => raw.t = type
    /\ type = "int" => raw.t = "int" \/ (raw.t = "str" /\ raw.v \in DigitTexts)
    /\ type = "UUID" => raw.t = "str" /\ raw.v \in HexTexts
    /\ type = "PortalStatus" => raw.t = "str" /\ raw.v \in PortalStatus

\* every item of the payload has, for every field, a value its type accepts
AllAccepted(sch, items) ==
    \A i \in 1 .. Len(items) : \A f \in DOMAIN Fields(sch) :
        Accepts(Fields(sch)[f], items[i][f])

C16_RecordsImmutable ==
    records.kind = "ok" => records = BuildList(schema, payload)

\* a token request of the refresh of the finished call failed
RefreshRequestFailed == CallDone /\ \E i \in DOMAIN tokLog : tokLog[i] # "ok"

\* C21 as stated: a token request that fails during a refresh leaves the
\* stored token as it was before the refresh, so the next resource call on the
\* client is entered with, and sends its first request with, the token the
\* failed call began with (posts[1]).
C21_FailedRefreshKeepsToken ==
    [][/\ TokenStep /\ pc \in {"try_fetch", "except_fetch"} /\ tokLog'[Len(tokLog')] # "ok"
             => access_token' = access_token
       /\ RefreshRequestFailed /\ pc' = "ensured"
             => access_token' = posts[1] /\ Bearer(access_token') = posts[1]]_vars

\* both replies of the finished call reported the token invalid in a 200 body:
\* the first signalled 503 and was followed by a retry, and the reply to the
\* retry has status 200 and a JSON object whose code is 503
InvalidTwice ==
    /\ CallDone
    /\ firstSignal = "503"
    /\ Len(posts) = 2
    /\ response.status = HTTP_OK
    /\ Signal(response) = "503"

\* C22 as stated: such a call refreshes the token once, sends exactly two
\* resource POSTs, and returns the empty sequence without raising.
C22_Original ==
    InvalidTwice =>
        /\ tokLog = <<"ok">>
        /\ Len(posts) = 2
        /\ outcome = Returned(<<>>)

\* C22 amended: such a call refreshes the token once and sends exactly two
\* resource POSTs; the code of the retry reply is not looked at, so there is
\* no second refresh and no ApiError, and the call ends as the parse of the
\* retry body ends: the empty sequence when the body has no data member, the
\* records of its list or the error of parsing it otherwise.
C22_InvalidTwice ==
    InvalidTwice =>
        /\ tokLog = <<"ok">>
        /\ Len(posts) = 2
        /\ refreshRet = "True"
        /\ access_token = posts[2]
        /\ outcome.kind \notin {"ApiError", "AuthError"}
        /\ outcome = ParseRecords(op, response.body)
        /\ response.body.data.kind = "absent" => outcome = Returned(<<>>)

\* the retry answered 200 with code 503 and no data: an empty result
C22_Witness ==
    /\ InvalidTwice
    /\ response.body.data = NoData
    /\ outcome = Returned(<<>>)
    /\ tokLog = <<"ok">>

====
